---- MODULE Spec2Model ----
(***************************************************************************)
(* A model of src/Gantt.py: the run of handle_scope_input -> run_agent ->  *)
(* extract_tasks_with_gpt -> fill_gantt_excel -> fill_budget_excel, and    *)
(* the numeric helpers the budget sheet is computed with.                  *)
(*                                                                         *)
(* Numbers.  Python floats are modelled as exact numbers.  A value read    *)
(* from the payload or written to a cell is an integer count of            *)
(* 1/SCALE = 10^-max_dp ("grid" units, 1.0 = 10000).  Products and         *)
(* quotients of such values (a baseline quantity x rate, a share of the    *)
(* remainder) are exact fractions [n, d] in lowest terms, so the model     *)
(* rounds only where the code calls round().  round(x, 2) and round(x, 4)  *)
(* round to the nearest multiple; an exact tie goes to the even neighbour. *)
(* The properties are stated as distances, so none of them depends on the  *)
(* direction a tie takes.                                                  *)
(*                                                                         *)
(* Left out: the text of names and descriptions, cell styling, and the     *)
(* document readers, none of which a number of the sheets depends on.      *)
(***************************************************************************)
EXTENDS Integers, Sequences, FiniteSets, TLC

VARIABLES
    oracle,          \* what the Oracle answers for this run: [valid, data]
    today,           \* datetime.today().date(), a day number
    pc,              \* position in handle_scope_input / run_agent
    calls,           \* the functions invoked so far, in order
    plan,            \* run_agent's locals after extraction, or NoPlan
    gantt,           \* rows written by fill_gantt_excel
    i,               \* fill_budget_excel: loop index (0-based, next task)
    cur,             \* fill_budget_excel: locals and cells of the iteration under way
    ws,              \* fill_budget_excel: the cells of each finished row
    loc,             \* fill_budget_excel: the locals of each finished iteration
    any_per_task_budget,
    wrote_any_budget,
    budgets_written, \* the value fill_budget_excel returned, or "unset"
    files,           \* output spreadsheets currently on disk
    ui               \* messages shown by the front end

vars == <<oracle, today, pc, calls, plan, gantt, i, cur, ws, loc, any_per_task_budget,
          wrote_any_budget, budgets_written, files, ui>>

(***************************************************************************)
(* Values                                                                  *)
(***************************************************************************)
max_dp == 4
SCALE == 10 ^ max_dp
CENT == SCALE \div 100

\* A raw payload value or a to_number result: absent, a number, or a string.
None == [k |-> "none", v |-> 0, s |-> << >>]
Num(n) == [k |-> "num", v |-> n, s |-> << >>]
Str(chars) == [k |-> "str", v |-> 0, s |-> chars]

IsNone(x) == x.k = "none"
IsNum(x) == x.k = "num"

\* Python truthiness of a to_number result: None and 0.0 are falsy.
Truthy(x) == IsNum(x) /\ x.v # 0

\* Python's `a or b`.
PyOr(a, b) == IF Truthy(a) THEN a ELSE b

Abs(n) == IF n < 0 THEN -n ELSE n
Max(a, b) == IF a >= b THEN a ELSE b

RECURSIVE Gcd(_, _)
Gcd(a, b) == IF b = 0 THEN a ELSE Gcd(b, a % b)

\* The fraction n/d (d # 0) in lowest terms with a positive denominator.
Rat(n, d) ==
    LET g == Gcd(Abs(n), Abs(d))
        sgn == IF d < 0 THEN -1 ELSE 1
    IN  [n |-> sgn * (n \div g), d |-> Abs(d) \div g]

\* A grid value as a fraction.
Grid(x) == Rat(x, SCALE)

RMul(a, b) ==
    LET g1 == Gcd(Abs(a.n), b.d)
        g2 == Gcd(Abs(b.n), a.d)
    IN  Rat((a.n \div g1) * (b.n \div g2), (a.d \div g2) * (b.d \div g1))

RAdd(a, b) ==
    LET g == Gcd(a.d, b.d)
    IN  Rat(a.n * (b.d \div g) + b.n * (a.d \div g), (a.d \div g) * b.d)

RSub(a, b) == RAdd(a, [n |-> -b.n, d |-> b.d])

\* a / b for b # 0
RDiv(a, b) == RMul(a, Rat(b.d, b.n))

RLeq(a, b) == RSub(a, b).n <= 0

RMax(a, b) == IF RLeq(b, a) THEN a ELSE b

RAbs(a) == [n |-> Abs(a.n), d |-> a.d]

\* <<floor(r * 10^k / d), the remainder>> for 0 <= r < d, digit by digit.
RECURSIVE LongDiv(_, _, _)
LongDiv(r, d, k) ==
    IF k = 0 THEN <<0, r>>
    ELSE LET p == LongDiv(r, d, k - 1)
             t == p[2] * 10
         IN  <<p[1] * 10 + (t \div d), t % d>>

\* round(x, dp) of a fraction, as a grid value.
Round(x, dp) ==
    LET whole == x.n \div x.d
        p == LongDiv(x.n % x.d, x.d, dp)
        q == whole * (10 ^ dp) + p[1]
        r == p[2]
        nearest == IF r < x.d - r THEN q
                   ELSE IF r > x.d - r THEN q + 1
                   ELSE IF q % 2 = 0 THEN q ELSE q + 1
    IN  (SCALE \div (10 ^ dp)) * nearest

\* round(x, 2)
Round2(x) == Round(x, 2)

(***************************************************************************)
(* to_number                                                               *)
(***************************************************************************)
DigitChars == <<"0", "1", "2", "3", "4", "5", "6", "7", "8", "9">>
Range(f) == {f[x] : x \in DOMAIN f}
IsDigit(c) == c \in Range(DigitChars)
DigitVal(c) == CHOOSE d \in 0..9 : DigitChars[d + 1] = c

\* re.sub(r'[^\d.\-]', '', s)
StripNonNumeric(s) == SelectSeq(s, LAMBDA c : IsDigit(c) \/ c \in {".", "-"})

RECURSIVE DigitsVal(_)
DigitsVal(s) ==
    IF s = << >> THEN 0
    ELSE 10 * DigitsVal(SubSeq(s, 1, Len(s) - 1)) + DigitVal(s[Len(s)])

\* float(s) for a string of digits, dots and minus signs: a number when s is
\* an optional leading '-', then digits with at most one '.', and at least one
\* digit; ValueError (None here) otherwise.  Tokens carry at most max_dp
\* fractional digits.
ParseFloat(s) ==
    LET body == IF s # << >> /\ s[1] = "-" THEN Tail(s) ELSE s
        dots == {x \in DOMAIN body : body[x] = "."}
        ok == /\ \A x \in DOMAIN body : body[x] # "-"
              /\ Cardinality(dots) <= 1
              /\ \E x \in DOMAIN body : IsDigit(body[x])
        dot == IF dots = {} THEN Len(body) + 1 ELSE CHOOSE x \in dots : TRUE
        ip == SubSeq(body, 1, dot - 1)
        fp == SubSeq(body, dot + 1, Len(body))
        mag == DigitsVal(ip) * SCALE + DigitsVal(fp) * 10 ^ (max_dp - Len(fp))
    IN  IF ~ok THEN None
        ELSE IF s[1] = "-" THEN Num(-mag) ELSE Num(mag)

to_number(val) ==
    IF IsNum(val) THEN val
    ELSE IF IsNone(val) THEN None
    ELSE ParseFloat(StripNonNumeric(val.s))

(***************************************************************************)
(* Market prices                                                           *)
(***************************************************************************)
market_labour_hour == 8 * SCALE
market_labour_per_hr == 25 * SCALE
market_material_units == 5 * SCALE
market_material_per_unit == 50 * SCALE
market_travel == 10 * SCALE
market_equipment == 30 * SCALE
market_fixed == 0 * SCALE
market_misc == 15 * SCALE

(***************************************************************************)
(* Dates: a raw date is absent, a string one of parse_date's formats reads *)
(* as day number v, or a string none of them reads.                        *)
(***************************************************************************)
DateStr(d) == [k |-> "date", v |-> d, s |-> << >>]
BadDate == [k |-> "str", v |-> 0, s |-> <<"t", "b", "d">>]

\* A date string spelled out: its shape (the strptime format it has, or "free"
\* when it has none of them) and the digit groups re.findall(r"\d+") finds
\* in it, from left to right.
DateToken(fmt, nums) == [k |-> "datestr", v |-> 0, s |-> << >>, fmt |-> fmt, nums |-> nums]

IsLeap(y) == (y % 4 = 0 /\ y % 100 # 0) \/ y % 400 = 0

DaysInMonth(y, m) ==
    IF m = 2 THEN (IF IsLeap(y) THEN 29 ELSE 28)
    ELSE IF m \in {4, 6, 9, 11} THEN 30 ELSE 31

\* datetime(y, m, d) does not raise
ValidDate(y, m, d) ==
    /\ y \in 1..9999
    /\ m \in 1..12
    /\ d \in 1..DaysInMonth(y, m)

RECURSIVE DaysBeforeMonth(_, _)
DaysBeforeMonth(y, m) ==
    IF m = 1 THEN 0 ELSE DaysBeforeMonth(y, m - 1) + DaysInMonth(y, m - 1)

\* The date y-m-d as its day number (date.toordinal()).
Date(y, m, d) ==
    LET p == y - 1
    IN  DateStr(365 * p + (p \div 4) - (p \div 100) + (p \div 400)
                + DaysBeforeMonth(y, m) + d)

parse_date(date_str) ==
    IF date_str.k = "date" THEN date_str
    ELSE IF date_str.k = "datestr"
    THEN LET n == date_str.nums
         IN  IF date_str.fmt = "%Y-%m-%d" /\ ValidDate(n[1], n[2], n[3])
             THEN Date(n[1], n[2], n[3])
             ELSE IF /\ date_str.fmt \in {"%d/%m/%Y", "%d-%m-%Y", "%d %b %Y", "%d %B %Y"}
                     /\ ValidDate(n[3], n[2], n[1])
             THEN Date(n[3], n[2], n[1])
             ELSE IF Len(n) = 3 /\ ValidDate(n[3], n[2], n[1])
             THEN Date(n[3], n[2], n[1])
             ELSE None
    ELSE None

\* Python's `a or b` for a parse_date result (a date is always truthy).
DateOr(a, b) == IF IsNone(a) THEN b ELSE a

(***************************************************************************)
(* Cost Baseline Resolver.  The baselines are fractions.                   *)
(***************************************************************************)
IsDict(x) == x.k = "dict"

labour_baseline(costs) ==
    IF IsDict(costs.labour)
    THEN LET l == costs.labour
             hours == to_number(l.hours)
             per_hr == to_number(l.per_hr)
             total == to_number(l.total)
             h == IF IsNum(hours) THEN hours.v ELSE market_labour_hour
             r == IF IsNum(per_hr) THEN per_hr.v ELSE market_labour_per_hr
         IN  IF IsNum(total) THEN Grid(total.v) ELSE RMul(Grid(h), Grid(r))
    ELSE LET maybe_total == to_number(costs.labour)
         IN  IF IsNum(maybe_total) THEN Grid(maybe_total.v)
             ELSE RMul(Grid(market_labour_hour), Grid(market_labour_per_hr))

material_baseline(costs) ==
    IF IsDict(costs.material)
    THEN LET m == costs.material
             units == to_number(m.units)
             per_unit == to_number(m.per_unit)
             total == to_number(m.total)
             u == IF IsNum(units) THEN units.v ELSE market_material_units
             pu == IF IsNum(per_unit) THEN per_unit.v ELSE market_material_per_unit
         IN  IF IsNum(total) THEN Grid(total.v) ELSE RMul(Grid(u), Grid(pu))
    ELSE LET maybe_total == to_number(costs.material)
         IN  IF IsNum(maybe_total) THEN Grid(maybe_total.v)
             ELSE RMul(Grid(market_material_units), Grid(market_material_per_unit))

_baseline_labour_material(costs) ==
    <<labour_baseline(costs), material_baseline(costs)>>

OrDefault(x, d) == IF IsNum(x) THEN x.v ELSE d

_other_components(costs) ==
    [travel    |-> OrDefault(to_number(costs.travel), market_travel),
     equipment |-> OrDefault(to_number(costs.equipment), market_equipment),
     fixed     |-> OrDefault(to_number(costs.fixed), market_fixed),
     misc      |-> OrDefault(to_number(costs.misc), market_misc)]

(***************************************************************************)
(* Pair Back-Solver.  total and the defaults are grid numbers, first and   *)
(* second are to_number results; the pair returned is in grid units.       *)
(***************************************************************************)
\* `x not in (None, 0)`
Supplied(x) == IsNum(x) /\ x.v # 0

\* round(t / x, max_dp)
BackDiv(t, x) == Round(RDiv(Grid(t), Grid(x)), max_dp)

\* _backsolve_pair with both supplied operands kept as they came.
backsolve_keep_both(total, first, second, default_first, default_second) ==
    LET t == total
    IN  IF t <= 0 THEN <<0, 0>>
        ELSE IF Supplied(first) /\ Supplied(second)
             THEN <<first.v, second.v>>
        ELSE IF Supplied(first)
             THEN <<first.v, BackDiv(t, first.v)>>
        ELSE IF Supplied(second)
             THEN <<BackDiv(t, second.v), second.v>>
        ELSE LET f == IF default_first # 0 THEN default_first ELSE SCALE
             IN  <<f, BackDiv(t, f)>>

_backsolve_pair(total, first, second, default_first, default_second) ==
    LET t == total
    IN  IF t <= 0 THEN <<0, 0>>
        ELSE IF Supplied(first) /\ Supplied(second)
             THEN <<first.v, BackDiv(t, first.v)>>
        ELSE IF Supplied(first)
             THEN <<first.v, BackDiv(t, first.v)>>
        ELSE IF Supplied(second)
             THEN <<BackDiv(t, second.v), second.v>>
        ELSE LET f == IF default_first # 0 THEN default_first ELSE SCALE
             IN  <<f, BackDiv(t, f)>>

(***************************************************************************)
(* fill_budget_excel: one iteration of the loop over the tasks             *)
(***************************************************************************)
\* 1e-6
EPSILON == Rat(1, 10 ^ 6)

\* Estimated task cost from scope (if any)
estimated_of(task) ==
    LET estimated == to_number(task.estimated_cost)
    IN  IF IsNone(estimated)
        THEN PyOr(PyOr(to_number(task.budget), to_number(task.est_cost)),
                  to_number(task.cost))
        ELSE estimated

\* allocation with the total of the branch without an estimated cost taken
\* from the baselines as they are, not from the rounded labour and material.
allocation_total_of_bases(labour_base, material_base, other_total, estimated) ==
    IF IsNum(estimated) /\ estimated.v >= 0
    THEN LET lm_base_sum == RMax(RAdd(labour_base, material_base), EPSILON)
             remainder == Max(0, estimated.v - other_total)
             labour_final ==
                 Round2(RMul(Grid(remainder), RDiv(labour_base, lm_base_sum)))
             material_final == Round2(Grid(remainder - labour_final))
         IN  [override |-> TRUE, labour_final |-> labour_final,
              material_final |-> material_final, total |-> estimated.v]
    ELSE [override |-> FALSE, labour_final |-> Round2(labour_base),
          material_final |-> Round2(material_base),
          total |-> Round2(RAdd(RAdd(labour_base, material_base), Grid(other_total)))]

\* ---- ALLOCATION ----  labour_final, material_final and the task total.
allocation(labour_base, material_base, other_total, estimated) ==
    IF IsNum(estimated) /\ estimated.v >= 0
    THEN LET lm_base_sum == RMax(RAdd(labour_base, material_base), EPSILON)
             remainder == Max(0, estimated.v - other_total)
             labour_final ==
                 Round2(RMul(Grid(remainder), RDiv(labour_base, lm_base_sum)))
             material_final == Round2(Grid(remainder - labour_final))
         IN  [override |-> TRUE, labour_final |-> labour_final,
              material_final |-> material_final, total |-> estimated.v]
    ELSE LET labour_final == Round2(labour_base)
             material_final == Round2(material_base)
             actual_total ==
                 Round2(Grid(labour_final + material_final + other_total))
         IN  [override |-> FALSE, labour_final |-> labour_final,
              material_final |-> material_final, total |-> actual_total]

\* budget_cell with the project total shared among the tasks that carry no
\* budget of their own.
budget_cell_among_unbudgeted(task, total_budget, tasks) ==
    LET n_tasks == Cardinality({x \in DOMAIN tasks : IsNone(to_number(tasks[x].budget))})
        per_task_budget == to_number(task.budget)
    IN  IF IsNum(per_task_budget) THEN per_task_budget
        ELSE IF IsNum(total_budget) /\ n_tasks > 0
             THEN Num(Round2(RDiv(Grid(total_budget.v), Rat(n_tasks, 1))))
        ELSE None

\* ---- Budget column (S) ----  the value written, None when left blank.
budget_cell(task, total_budget, tasks) ==
    LET n_tasks == Len(tasks)
        per_task_budget == to_number(task.budget)
    IN  IF IsNum(per_task_budget) THEN per_task_budget
        ELSE IF IsNum(total_budget) /\ n_tasks > 0
             THEN Num(Round2(RDiv(Grid(total_budget.v), Rat(n_tasks, 1))))
        ELSE None

labour_inputs(costs) ==
    IF IsDict(costs.labour)
    THEN <<to_number(costs.labour.hours), to_number(costs.labour.per_hr)>>
    ELSE <<None, None>>

material_inputs(costs) ==
    IF IsDict(costs.material)
    THEN <<to_number(costs.material.units), to_number(costs.material.per_unit)>>
    ELSE <<None, None>>

(***************************************************************************)
(* The payloads and tasks a run is checked with                            *)
(***************************************************************************)
MaxTasks == 3

NoCosts == [labour |-> None, material |-> None, travel |-> None,
            equipment |-> None, fixed |-> None, misc |-> None]

\* Decimal d.ddd as a grid number: whole units and thousandths.
Dec(units, thousandths) == units * SCALE + thousandths * (SCALE \div 1000)

PoundToken == Str(<<"£", "1", ",", "2", "0", "0", ".", "5", "0">>)
JunkToken == Str(<<"n", "/", "a">>)

\* Tasks that differ in their budget and start date only.
PlanTasks ==
    [estimated_cost : {None},
     budget : {None, Num(Dec(1000, 0)), PoundToken, JunkToken},
     est_cost : {None},
     cost : {None},
     costs : {NoCosts},
     start : {None, DateStr(2)},
     end : {None}]

LabourDicts ==
    [k : {"dict"},
     hours : {None, Num(0), Num(Dec(3, 0)), Num(Dec(10, 0))},
     per_hr : {None, Num(Dec(20, 0)), Num(Dec(7, 0))},
     total : {None, Num(Dec(500, 0))}]

MaterialDicts ==
    [k : {"dict"},
     units : {None, Num(Dec(3, 0))},
     per_unit : {None},
     total : {None, Num(0)}]

\* Tasks that differ in their cost data.
CostTasks ==
    [estimated_cost : {None, Num(0), Num(Dec(10, 0)), Num(Dec(500, 0)),
                       Num(Dec(100, 5)), Num(Dec(-5, 0))},
     budget : {None, Num(0), Num(Dec(1000, 0))},
     est_cost : {None, Num(Dec(7, 0))},
     cost : {None, Num(Dec(5, 0))},
     costs : [labour : {None, Num(Dec(10, 4))} \cup LabourDicts,
              material : {None, Num(Dec(20, 4))} \cup MaterialDicts,
              travel : {None, Num(Dec(50, 0)), Num(Dec(10, 4))},
              equipment : {None},
              fixed : {None},
              misc : {None}],
     start : {None},
     end : {None}]

RECURSIVE SeqsUpTo(_, _)
SeqsUpTo(S, n) ==
    IF n = 0 THEN {<< >>}
    ELSE LET shorter == SeqsUpTo(S, n - 1)
         IN  shorter \cup {Append(q, x) : q \in {r \in shorter : Len(r) = n - 1}, x \in S}

\* The iteration's locals and cells before anything is computed.
Blank ==
    [labour_base |-> Rat(0, 1), material_base |-> Rat(0, 1),
     others |-> [travel |-> 0, equipment |-> 0, fixed |-> 0, misc |-> 0],
     other_total |-> 0, estimated |-> None, override |-> FALSE,
     labour_final |-> 0, material_final |-> 0, total |-> 0,
     hours |-> 0, rate |-> 0, units |-> 0, unit_price |-> 0,
     start |-> None, end |-> None]

NoData == [project_start_date |-> None, project_total_budget |-> None, tasks |-> << >>]
NoPlan == [project_start_date |-> None, total_budget |-> None, tasks |-> << >>]

\* Everything but the Oracle's answer, as handle_scope_input finds it.
Start ==
    /\ today = 1
    /\ pc = "idle"
    /\ calls = << >>
    /\ plan = NoPlan
    /\ gantt = << >>
    /\ i = 0
    /\ cur = Blank
    /\ ws = << >>
    /\ loc = << >>
    /\ any_per_task_budget = FALSE
    /\ wrote_any_budget = FALSE
    /\ budgets_written = "unset"
    /\ files = {}
    /\ ui = {}

\* A plan of up to MaxTasks tasks with budgets, or a payload that is not JSON.
Init ==
    /\ Start
    /\ \/ oracle \in [valid : {TRUE},
                      data : [project_start_date : {None, DateStr(3)},
                              project_total_budget : {None, Num(Dec(900, 0)),
                                                      Num(Dec(1000, 0))},
                              tasks : SeqsUpTo(PlanTasks, MaxTasks)]]
       \/ oracle = [valid |-> FALSE, data |-> NoData]

\* A plan of one task with cost data, or a payload that is not JSON.
InitCosts ==
    /\ Start
    /\ \/ oracle \in [valid : {TRUE},
                      data : [project_start_date : {None},
                              project_total_budget : {None},
                              tasks : {<<t>> : t \in CostTasks}]]
       \/ oracle = [valid |-> FALSE, data |-> NoData]

\* Tasks whose cost data carry a sign, with no explicit total.
SignedTasks ==
    [estimated_cost : {None},
     budget : {None},
     est_cost : {None},
     cost : {None},
     costs : [labour : {None, Num(Dec(-300, 0)), Str(<<"-", "3", "0">>),
                        [k |-> "dict", hours |-> Num(Dec(-2, 0)), per_hr |-> None,
                         total |-> None],
                        [k |-> "dict", hours |-> None, per_hr |-> None,
                         total |-> Num(Dec(-40, 0))]},
              material : {None, Num(Dec(-20, 0)),
                          [k |-> "dict", units |-> Num(Dec(-3, 0)), per_unit |-> None,
                           total |-> None]},
              travel : {None, Num(Dec(-5, 0)), Num(Dec(50, 0))},
              equipment : {None, Str(<<"-", "7">>)},
              fixed : {None, Num(Dec(-1, 0))},
              misc : {None, Num(Dec(-15, 0))}],
     start : {None},
     end : {None}]

\* A plan of one task with signed cost data, or a payload that is not JSON.
InitSigned ==
    /\ Start
    /\ \/ oracle \in [valid : {TRUE},
                      data : [project_start_date : {None},
                              project_total_budget : {None},
                              tasks : {<<t>> : t \in SignedTasks}]]
       \/ oracle = [valid |-> FALSE, data |-> NoData]

MaxDatedTasks == 2

\* Tasks that differ in their start and end dates only.
DatedTasks ==
    [estimated_cost : {None},
     budget : {None},
     est_cost : {None},
     cost : {None},
     costs : {NoCosts},
     start : {None, BadDate, DateToken("%Y-%m-%d", <<2025, 6, 10>>)},
     end : {None, DateToken("%Y-%m-%d", <<2025, 6, 1>>),
            DateToken("%d %b %Y", <<20, 6, 2025>>),
            DateToken("%d-%m-%Y", <<31, 2, 2025>>),
            DateToken("free", <<3, 6, 2025>>)}]

\* A plan of up to MaxDatedTasks dated tasks, or a payload that is not JSON.
InitDates ==
    /\ Start
    /\ \/ oracle \in [valid : {TRUE},
                      data : [project_start_date :
                                  {None, DateToken("%d/%m/%Y", <<5, 6, 2025>>)},
                              project_total_budget : {None},
                              tasks : SeqsUpTo(DatedTasks, MaxDatedTasks)]]
       \/ oracle = [valid |-> FALSE, data |-> NoData]

\* "12 abc 34", "1a2", "1.2.3" and "Q3"
GroupsToken == Str(<<"1", "2", " ", "a", "b", "c", " ", "3", "4">>)
LetterToken == Str(<<"1", "a", "2">>)
DotsToken == Str(<<"1", ".", "2", ".", "3">>)
QuarterToken == Str(<<"Q", "3">>)

Tokens == {PoundToken, JunkToken, GroupsToken, LetterToken, DotsToken, QuarterToken}

\* Tasks whose budget and est_cost are text.
TokenTasks ==
    [estimated_cost : {None},
     budget : {None} \cup Tokens,
     est_cost : {None} \cup Tokens,
     cost : {None},
     costs : {NoCosts},
     start : {None},
     end : {None}]

\* A plan of one task with text for numbers, or a payload that is not JSON.
InitTokens ==
    /\ Start
    /\ \/ oracle \in [valid : {TRUE},
                      data : [project_start_date : {None},
                              project_total_budget : {None},
                              tasks : {<<t>> : t \in TokenTasks}]]
       \/ oracle = [valid |-> FALSE, data |-> NoData]

(***************************************************************************)
(* Excel layout                                                            *)
(***************************************************************************)
TASK_ROW_START == 8
TASK_ROW_GAP == 2

(***************************************************************************)
(* The run                                                                 *)
(***************************************************************************)
\* run_agent: extract_tasks_with_gpt returns the parsed payload; the plan's
\* fields are read from it.
extract_tasks_ok ==
    /\ pc = "idle"
    /\ oracle.valid
    /\ calls' = Append(calls, "extract_tasks_with_gpt")
    /\ plan' = [project_start_date |-> oracle.data.project_start_date,
                total_budget |-> to_number(oracle.data.project_total_budget),
                tasks |-> oracle.data.tasks]
    /\ pc' = "gantt"
    /\ UNCHANGED <<oracle, today, gantt, i, cur, ws, loc, any_per_task_budget,
                   wrote_any_budget, budgets_written, files, ui>>

\* extract_tasks_with_gpt answering an empty plan for a payload that is not
\* JSON, so that run_agent carries on.
extract_tasks_swallow_invalid_json ==
    /\ pc = "idle"
    /\ ~oracle.valid
    /\ calls' = Append(calls, "extract_tasks_with_gpt")
    /\ ui' = ui \cup {"invalid_json"}
    /\ plan' = NoPlan
    /\ pc' = "gantt"
    /\ UNCHANGED <<oracle, today, gantt, i, cur, ws, loc, any_per_task_budget,
                   wrote_any_budget, budgets_written, files>>

\* run_agent: json.loads raises; extract_tasks_with_gpt reports and re-raises,
\* run_agent does not catch, handle_scope_input reports and cleans up.
extract_tasks_invalid_json ==
    /\ pc = "idle"
    /\ ~oracle.valid
    /\ calls' = calls \o <<"extract_tasks_with_gpt", "cleanup_temp_files">>
    /\ ui' = ui \cup {"invalid_json", "error"}
    /\ files' = {}
    /\ pc' = "failed"
    /\ UNCHANGED <<oracle, today, plan, gantt, i, cur, ws, loc, any_per_task_budget,
                   wrote_any_budget, budgets_written>>

gantt_row(task, idx, sd) ==
    LET start == DateOr(parse_date(task.start), sd)
        end == DateOr(parse_date(task.end), start)
    IN  [row |-> TASK_ROW_START + idx * TASK_ROW_GAP, start |-> start, end |-> end]

fill_gantt_excel ==
    /\ pc = "gantt"
    /\ LET sd == DateOr(parse_date(plan.project_start_date), DateStr(today))
       IN  gantt' = [x \in 1..Len(plan.tasks) |-> gantt_row(plan.tasks[x], x - 1, sd)]
    /\ calls' = Append(calls, "fill_gantt_excel")
    /\ files' = files \cup {"filled_gantt"}
    /\ pc' = "budget"
    /\ UNCHANGED <<oracle, today, plan, i, cur, ws, loc, any_per_task_budget,
                   wrote_any_budget, budgets_written, ui>>

\* fill_budget_excel up to the loop.
fill_budget_begin ==
    /\ pc = "budget"
    /\ calls' = Append(calls, "fill_budget_excel")
    /\ i' = 0
    /\ cur' = Blank
    /\ ws' = << >>
    /\ loc' = << >>
    /\ any_per_task_budget' = FALSE
    /\ wrote_any_budget' = FALSE
    /\ pc' = "budget_loop"
    /\ UNCHANGED <<oracle, today, plan, gantt, budgets_written, files, ui>>

\* The iteration for tasks[i]: dates, ---- BASELINES ----, the other
\* components and the estimated task cost.
budget_row_baselines ==
    /\ pc = "budget_loop"
    /\ i < Len(plan.tasks)
    /\ LET task == plan.tasks[i + 1]
           sd == DateOr(parse_date(plan.project_start_date), DateStr(today))
           base == _baseline_labour_material(task.costs)
           others == _other_components(task.costs)
       IN  cur' = [Blank EXCEPT
                       !.start = DateOr(parse_date(task.start), sd),
                       !.end = parse_date(task.end),
                       !.labour_base = base[1],
                       !.material_base = base[2],
                       !.others = others,
                       !.other_total = others.travel + others.equipment
                                       + others.fixed + others.misc,
                       !.estimated = estimated_of(task)]
    /\ pc' = "row_allocation"
    /\ UNCHANGED <<oracle, today, calls, plan, gantt, i, ws, loc,
                   any_per_task_budget, wrote_any_budget, budgets_written, files, ui>>

\* The iteration for tasks[i]: ---- ALLOCATION ----
budget_row_allocation ==
    /\ pc = "row_allocation"
    /\ LET a == allocation(cur.labour_base, cur.material_base, cur.other_total,
                           cur.estimated)
       IN  cur' = [cur EXCEPT !.override = a.override,
                              !.labour_final = a.labour_final,
                              !.material_final = a.material_final,
                              !.total = a.total]
    /\ pc' = "row_backsolve"
    /\ UNCHANGED <<oracle, today, calls, plan, gantt, i, ws, loc,
                   any_per_task_budget, wrote_any_budget, budgets_written, files, ui>>

\* The iteration for tasks[i]: ---- Back-solve ---- hours and rate, units and
\* unit price.
budget_row_backsolve ==
    /\ pc = "row_backsolve"
    /\ LET task == plan.tasks[i + 1]
           lin == labour_inputs(task.costs)
           min == material_inputs(task.costs)
           hr == _backsolve_pair(cur.labour_final, lin[1], lin[2],
                                 market_labour_hour, market_labour_per_hr)
           up == _backsolve_pair(cur.material_final, min[1], min[2],
                                 market_material_units, market_material_per_unit)
       IN  cur' = [cur EXCEPT !.hours = hr[1], !.rate = hr[2],
                              !.units = up[1], !.unit_price = up[2]]
    /\ pc' = "row_budget"
    /\ UNCHANGED <<oracle, today, calls, plan, gantt, i, ws, loc,
                   any_per_task_budget, wrote_any_budget, budgets_written, files, ui>>

\* The iteration for tasks[i]: ---- Budget column (S) ----, which ends it.
budget_row_budget ==
    /\ pc = "row_budget"
    /\ LET task == plan.tasks[i + 1]
           S == budget_cell(task, plan.total_budget, plan.tasks)
       IN  /\ ws' = Append(ws, [E |-> cur.start, G |-> cur.end,
                                N |-> cur.others.travel, O |-> cur.others.equipment,
                                P |-> cur.others.fixed, Q |-> cur.others.misc,
                                J |-> cur.labour_final, M |-> cur.material_final,
                                T |-> cur.total,
                                H |-> cur.hours, I |-> cur.rate,
                                K |-> cur.units, L |-> cur.unit_price,
                                S |-> S])
           /\ any_per_task_budget' = (any_per_task_budget \/ IsNum(to_number(task.budget)))
           /\ wrote_any_budget' = (wrote_any_budget \/ IsNum(S))
    /\ loc' = Append(loc, [labour_base |-> cur.labour_base,
                           material_base |-> cur.material_base,
                           other_total |-> cur.other_total,
                           estimated |-> cur.estimated,
                           override |-> cur.override])
    /\ i' = i + 1
    /\ pc' = "budget_loop"
    /\ UNCHANGED <<oracle, today, calls, plan, gantt, cur, budgets_written, files, ui>>

\* What fill_budget_excel returns.
budget_return(wrote_any, any_per_task, total_budget) ==
    wrote_any \/ any_per_task \/ IsNum(total_budget)

\* fill_budget_excel after the loop: save and return; run_agent returns.
fill_budget_return ==
    /\ pc = "budget_loop"
    /\ i = Len(plan.tasks)
    /\ files' = files \cup {"filled_budget"}
    /\ budgets_written' =
           budget_return(wrote_any_budget, any_per_task_budget, plan.total_budget)
    /\ pc' = "downloads"
    /\ UNCHANGED <<oracle, today, calls, plan, gantt, i, cur, ws, loc,
                   any_per_task_budget, wrote_any_budget, ui>>

\* handle_scope_input after run_agent returned.
handle_scope_finish ==
    /\ pc = "downloads"
    /\ ui' = ui \cup {"downloads", "success"}
                \cup (IF budgets_written = FALSE THEN {"budget_warning"} ELSE {})
    /\ calls' = Append(calls, "cleanup_temp_files")
    /\ files' = {}
    /\ pc' = "done"
    /\ UNCHANGED <<oracle, today, plan, gantt, i, cur, ws, loc, any_per_task_budget,
                   wrote_any_budget, budgets_written>>

Next ==
    \/ extract_tasks_ok
    \/ extract_tasks_invalid_json
    \/ fill_gantt_excel
    \/ fill_budget_begin
    \/ budget_row_baselines
    \/ budget_row_allocation
    \/ budget_row_backsolve
    \/ budget_row_budget
    \/ fill_budget_return
    \/ handle_scope_finish

Spec == Init /\ [][Next]_vars

SpecCosts == InitCosts /\ [][Next]_vars

SpecSigned == InitSigned /\ [][Next]_vars

SpecDates == InitDates /\ [][Next]_vars

SpecTokens == InitTokens /\ [][Next]_vars

(***************************************************************************)
(* Properties                                                              *)
(***************************************************************************)
Rows == 1..Len(ws)

\* travel + equipment + fixed + misc as written to N..Q of row r
OthersWritten(r) == ws[r].N + ws[r].O + ws[r].P + ws[r].Q

\* |a - b| <= c for fractions
Within(a, b, c) == RLeq(RAbs(RSub(a, b)), c)

HalfCent == Rat(1, 200)

\* x is a whole number of cents and the nearest one to the fraction y
NearestCent(x, y) == x % CENT = 0 /\ Within(Grid(x), y, HalfCent)

\* C1: in the branch of an estimated cost E with E >= O (the other costs), the
\* labour total and the material total written add up to E - O exactly and the
\* task total written is E.
C1_OverrideSplitsRemainderExactly ==
    \A r \in Rows :
        (loc[r].override /\ loc[r].estimated.v >= loc[r].other_total)
            => /\ ws[r].J + ws[r].M = loc[r].estimated.v - loc[r].other_total
               /\ ws[r].T = loc[r].estimated.v

\* The operand of row r's pair that the back-solver keeps: the first when it is
\* supplied or when neither is, the second otherwise.
KeptOperand(first_in, second_in, first_out, second_out) ==
    IF Supplied(first_in) \/ ~Supplied(second_in) THEN first_out ELSE second_out

ProductWithin(total, first_out, second_out, tolerance) ==
    Within(RMul(Grid(first_out), Grid(second_out)), Grid(total), tolerance)

HalfUlpTimes(x) == RMul(Rat(1, 2 * SCALE), RAbs(Grid(x)))

C3_TotalIsSumOfSubtotals ==
    \A r \in Rows : ws[r].T = ws[r].J + ws[r].M + OthersWritten(r)

\* quantity (supplied or market default) x rate (supplied or market default)
QuantityTimesRate(quantity, rate, default_quantity, default_rate) ==
    RMul(Grid(OrDefault(quantity, default_quantity)), Grid(OrDefault(rate, default_rate)))

\* C4: whenever a quantity or a rate is supplied for labour or for material, the
\* baseline is quantity x rate (each supplied or the market default), whatever
\* total is supplied.
C4_QuantityOrRateOutweighsTotal ==
    \A r \in Rows :
        LET costs == plan.tasks[r].costs
            lin == labour_inputs(costs)
            min == material_inputs(costs)
        IN  /\ (IsNum(lin[1]) \/ IsNum(lin[2])) =>
                   loc[r].labour_base =
                       QuantityTimesRate(lin[1], lin[2],
                                         market_labour_hour, market_labour_per_hr)
            /\ (IsNum(min[1]) \/ IsNum(min[2])) =>
                   loc[r].material_base =
                       QuantityTimesRate(min[1], min[2],
                                         market_material_units, market_material_per_unit)

\* The first of a, b, c, d that is not None.
FirstNonNull(a, b, c, d) ==
    IF ~IsNone(a) THEN a ELSE IF ~IsNone(b) THEN b ELSE IF ~IsNone(c) THEN c ELSE d

ExplicitTotal(task) ==
    FirstNonNull(to_number(task.estimated_cost), to_number(task.budget),
                 to_number(task.est_cost), to_number(task.cost))

\* C5: a task takes the branch of an estimated cost exactly when one of
\* estimated_cost, budget, est_cost, cost is present, and the total used is the
\* first of them that is present, a zero included.
C5_OverrideIsFirstPresentTotal ==
    \A r \in Rows :
        /\ loc[r].override = IsNum(ExplicitTotal(plan.tasks[r]))
        /\ loc[r].override => loc[r].estimated = ExplicitTotal(plan.tasks[r])

\* The project total budget as the payload gave it.
ProjectTotal == to_number(oracle.data.project_total_budget)

\* The number of tasks of the payload.
TaskCount == Len(oracle.data.tasks)

\* s is a whole number of cents and the nearest one to total / n
EqualShare(s, total, n) ==
    /\ IsNum(s)
    /\ s.v % CENT = 0
    /\ 2 * Abs(s.v * n - total) <= n * CENT

\* C6: the budget written for a task is its own budget when it has one; else,
\* when the project has a total budget, that total divided by the number of all
\* tasks and rounded to 2 decimals; else nothing.
C6_BudgetColumn ==
    \A r \in Rows :
        LET own == to_number(oracle.data.tasks[r].budget)
        IN  IF IsNum(own) THEN ws[r].S = own
            ELSE IF IsNum(ProjectTotal)
                 THEN EqualShare(ws[r].S, ProjectTotal.v, TaskCount)
            ELSE ws[r].S = None

\* C6 witness: a finished sheet of three rows, one with the task's own budget
\* and one with a share of a project total that three does not divide.
C6_Witness ==
    /\ pc = "done"
    /\ Len(ws) = 3
    /\ ProjectTotal = Num(Dec(1000, 0))
    /\ \E r \in Rows : IsNum(to_number(oracle.data.tasks[r].budget))
    /\ \E r \in Rows : /\ IsNone(to_number(oracle.data.tasks[r].budget))
                       /\ ws[r].S = Num(Dec(333, 330))

\* Scenario 4: three tasks, exactly one with a budget of its own, 1000, and a
\* project total budget of 900; all three rows are written.
Scenario4 ==
    /\ Len(ws) = 3
    /\ TaskCount = 3
    /\ ProjectTotal = Num(Dec(900, 0))
    /\ Cardinality({r \in Rows : IsNum(to_number(oracle.data.tasks[r].budget))}) = 1
    /\ \E r \in Rows : to_number(oracle.data.tasks[r].budget) = Num(Dec(1000, 0))

Unbudgeted == {r \in Rows : IsNone(to_number(oracle.data.tasks[r].budget))}

\* C7 as stated: in scenario 4 each of the two tasks without a budget is
\* assigned 450, the project total divided among the tasks without a budget.
C7_Scenario4Assigns450 ==
    Scenario4 => \A r \in Unbudgeted : ws[r].S = Num(Dec(450, 0))

\* C7 as amended: in scenario 4 the task with the budget is assigned 1000 and
\* each of the other two 300; in general every task without a budget is
\* assigned the project total divided by the number of all tasks, the tasks
\* with a budget of their own included.
C7_Scenario4Assigns300 ==
    /\ Scenario4 =>
           \A r \in Rows : ws[r].S = IF r \in Unbudgeted THEN Num(Dec(300, 0))
                                     ELSE Num(Dec(1000, 0))
    /\ IsNum(ProjectTotal) =>
           \A r \in Unbudgeted : EqualShare(ws[r].S, ProjectTotal.v, Len(plan.tasks))

\* C7 witness: scenario 4 with the run finished.
C7_Witness == Scenario4 /\ pc = "done"

BudgetWritten == \E r \in Rows : IsNum(ws[r].S)

\* C8: what fill_budget_excel returns is true exactly when some task had a
\* budget value written, and the front end warns exactly when it is false.
C8_ReturnsWhetherBudgetWritten ==
    /\ pc \in {"downloads", "done"} => (budgets_written = BudgetWritten)
    /\ pc = "done" => (("budget_warning" \in ui) = ~BudgetWritten)

Called(name) == \E x \in DOMAIN calls : calls[x] = name

\* C9: when the payload is not JSON the run fails with an error and yields no
\* plan: fill_gantt_excel and fill_budget_excel are not invoked, no output
\* spreadsheet is written, and the Oracle is asked once at most.
C9_InvalidJsonFailsWithoutPlan ==
    ~oracle.valid =>
        /\ ~Called("fill_gantt_excel")
        /\ ~Called("fill_budget_excel")
        /\ files = {}
        /\ plan = NoPlan /\ gantt = << >> /\ ws = << >>
        /\ budgets_written = "unset"
        /\ Cardinality({x \in DOMAIN calls : calls[x] = "extract_tasks_with_gpt"}) <= 1
        /\ pc \in {"idle", "failed"}
        /\ pc = "failed" => ("error" \in ui /\ "success" \notin ui)

\* C9 witness: a payload that is not JSON has been received and reported.
C9_Witness ==
    ~oracle.valid /\ pc = "failed" /\ Called("extract_tasks_with_gpt")

\* labour_base + material_base + other_total of iteration r
BaseSum(r) == RAdd(RAdd(loc[r].labour_base, loc[r].material_base), Grid(loc[r].other_total))

\* C10 as stated: without an estimated cost the task total written is
\* labour_base + material_base + other_total, the baselines unrounded, rounded
\* to 2 decimals.
C10_TotalIsRoundedSumOfBases ==
    \A r \in Rows : ~loc[r].override => NearestCent(ws[r].T, BaseSum(r))

\* C10 as amended: without an estimated cost the labour and material totals
\* written are the baselines rounded to 2 decimals, and the task total written
\* is the sum of those two rounded totals and other_total, rounded to 2 decimals.
C10_TotalIsRoundedSumOfRoundedParts ==
    \A r \in Rows :
        ~loc[r].override =>
            /\ NearestCent(ws[r].J, loc[r].labour_base)
            /\ NearestCent(ws[r].M, loc[r].material_base)
            /\ NearestCent(ws[r].T, Grid(ws[r].J + ws[r].M + loc[r].other_total))

\* C10 witness: a row written without an estimated cost whose labour and
\* material baselines are not whole cents.
C10_Witness ==
    \E r \in Rows :
        /\ ~loc[r].override
        /\ Grid(ws[r].J) # loc[r].labour_base
        /\ Grid(ws[r].M) # loc[r].material_base

\* C11: on every row the labour and material baselines and the travel,
\* equipment, fixed and misc components are numbers not below zero.
C11_BaselinesNotNegative ==
    \A r \in Rows :
        /\ loc[r].labour_base.n >= 0
        /\ loc[r].material_base.n >= 0
        /\ ws[r].N >= 0
        /\ ws[r].O >= 0
        /\ ws[r].P >= 0
        /\ ws[r].Q >= 0

\* C12: on every row fill_gantt_excel writes, the end date is not earlier than
\* the start date, so that the duration end - start is not negative.
C12_EndNotBeforeStart ==
    \A r \in DOMAIN gantt : gantt[r].end.v - gantt[r].start.v >= 0

CurrencySymbols == {"£", "$", "€"}

\* A number in text: digits with at most one decimal point and with thousands
\* separators, after an optional sign and currency symbols; nothing else.
WellFormedNumber(chars) ==
    LET digits == {x \in DOMAIN chars : IsDigit(chars[x])}
    IN  /\ digits # {}
        /\ \A x \in DOMAIN chars :
               \/ IsDigit(chars[x])
               \/ chars[x] \in {".", ","} /\ \E y \in digits : y < x
               \/ chars[x] \in {"-"} \cup CurrencySymbols /\ \A y \in digits : x < y
        /\ Cardinality({x \in DOMAIN chars : chars[x] = "."}) <= 1
        /\ Cardinality({x \in DOMAIN chars : chars[x] = "-"}) <= 1

\* C13: a budget given as text that is not a well-formed number (letters
\* among the digits, several digit groups) is read as absent by to_number, so
\* that with no project total the budget cell of its row stays blank.
C13_UnparsableTokenIsAbsent ==
    \A r \in Rows :
        LET budget == plan.tasks[r].budget
        IN  (budget.k = "str" /\ ~WellFormedNumber(budget.s)) => IsNone(ws[r].S)

====
